---------------------------- MODULE Spec2Model ----------------------------
(***************************************************************************)
(* web-records: the Preact App controller (src/src/components/App.tsx),    *)
(* its sections, the AudioRecorder and the localStorage wrapper Storage.   *)
(*                                                                         *)
(* A JavaScript value that may be null is a sequence: <<>> is null and     *)
(* <<v>> is the value v.  Strings are TLA+ strings; "" is the empty one.   *)
(***************************************************************************)
EXTENDS Integers, Sequences, FiniteSets, TLC

VARIABLES
  appState,        \* App: useState<AppState>
  transcript,      \* App: useState<string>
  soapMarkdown,    \* App: useState<string>
  soapHTML,        \* App: useState<string>
  selectedTemplate,\* App: useState<string>
  alertMessage,    \* App: useState<string | null>
  alertType,       \* App: useState<AlertType>
  isSettingsOpen,  \* App: useState<boolean>
  geminiClient,    \* App: useState<GeminiClient | null>, the key it was built with
  mounted,         \* the mount effects of the page have run
  recorder,        \* the AudioRecorder instance: mediaRecorder, stream, startTime
  initPending,     \* handleStartRecording calls waiting in audioRecorder.initialize()
  stopPending,     \* handleStopRecording calls waiting in audioRecorder.stop(), by closure
  transcribePending, \* transcribeAudio requests neither resolved nor rejected
  generatePending, \* generateNote requests neither resolved nor rejected
  editorShown,     \* SOAPSection: the #soap-editor element is in the DOM
  editorHTML,      \* innerHTML of the displayed #soap-editor element
  rteBound,        \* the element the RichTextEditor wraps: "displayed" or "detached"
  rteHTML,         \* innerHTML of the element the RichTextEditor wraps
  localStorage,    \* the browser's localStorage, by STORAGE_KEYS
  now,             \* the clock read by new Date()
  beforeReload,    \* what the App held when the page was last reloaded
  lastOp,          \* the handler or callback that ran last
  selectionStart,  \* insert-at-cursor App: the cursor position of the textarea
  insertPending,   \* insert-at-cursor App: handleStopRecording calls at an await
  userPresent      \* the user is still there to click and type

appVars == <<appState, transcript, soapMarkdown, soapHTML, selectedTemplate,
             alertMessage, alertType, isSettingsOpen, geminiClient, mounted>>
asyncVars == <<recorder, initPending, stopPending, transcribePending, generatePending>>
editorVars == <<editorShown, editorHTML, rteBound, rteHTML>>
insertVars == <<selectionStart, insertPending>>
vars == <<appVars, asyncVars, editorVars, localStorage, now, beforeReload, lastOp,
          insertVars, userPresent>>

-----------------------------------------------------------------------------
(* Bounds of the model *)

\* asynchronous operations (initialize, stop, transcribeAudio, generateNote)
\* that may be outstanding at once
MaxPending == 2
\* handleSaveSOAP calls explored by the App specification
MaxSaves == 1
\* Storage.addSessionToHistory calls explored by the Storage specification
MaxClock == 53

(* Program constants *)

\* storage.ts: if (history.length > 50) history.pop()
HISTORY_LIMIT == 50

NULL == <<>>
Some(v) == <<v>>

\* x || d on a nullable string: null and '' are falsy
OrElse(opt, d) == IF opt = NULL \/ opt[1] = "" THEN d ELSE opt[1]

-----------------------------------------------------------------------------
(* types/index.ts *)

IDLE == "idle"
RECORDING == "recording"
TRANSCRIBING == "transcribing"
TRANSCRIPT_READY == "transcript_ready"
GENERATING_SOAP == "generating_soap"
SOAP_READY == "soap_ready"

AppState == {IDLE, RECORDING, TRANSCRIBING, TRANSCRIPT_READY, GENERATING_SOAP, SOAP_READY}

-----------------------------------------------------------------------------
(* modules/storage.ts *)

STORAGE_KEYS == {"gemini_api_key", "system_prompt", "current_session",
                 "session_history", "selected_template"}

DEFAULT_SYSTEM_PROMPT == "You are a veterinary medical assistant."

\* JSON.stringify / JSON.parse of a Session or a Session[]: the text is never
\* empty, and parsing it gives back the value that was written
JSONstringify(v) == <<"json", v>>
JSONparse(s) == s[2]

getItem(ls, key) == ls[key]
setItem(ls, key, value) == [ls EXCEPT ![key] = Some(value)]
removeItem(ls, key) == [ls EXCEPT ![key] = NULL]

getApiKey(ls) == OrElse(getItem(ls, "gemini_api_key"), "")
setApiKey(ls, key) == setItem(ls, "gemini_api_key", key)
hasApiKey(ls) == Len(getApiKey(ls)) > 0
clearApiKey(ls) == removeItem(ls, "gemini_api_key")

getSystemPrompt(ls) == OrElse(getItem(ls, "system_prompt"), DEFAULT_SYSTEM_PROMPT)
setSystemPrompt(ls, prompt) == setItem(ls, "system_prompt", prompt)
resetSystemPrompt(ls) == setItem(ls, "system_prompt", DEFAULT_SYSTEM_PROMPT)

getSelectedTemplate(ls) == OrElse(getItem(ls, "selected_template"), "none")
setSelectedTemplate(ls, templateId) == setItem(ls, "selected_template", templateId)

\* Session | null
getCurrentSession(ls) ==
  LET data == getItem(ls, "current_session")
  IN IF data # NULL THEN Some(JSONparse(data[1])) ELSE NULL
setCurrentSession(ls, sessionData) ==
  setItem(ls, "current_session", JSONstringify(sessionData))
clearCurrentSession(ls) == removeItem(ls, "current_session")

getSessionHistory(ls) ==
  LET data == getItem(ls, "session_history")
  IN IF data # NULL THEN JSONparse(data[1]) ELSE <<>>

\* variant of clearAllData that removes the session keys only
clearSessionData(ls) ==
  [key \in DOMAIN ls |->
     IF key \in {"current_session", "session_history"} THEN NULL ELSE ls[key]]

\* variants of the history update: history.push(x) in place of unshift, and
\* an update without the length test
HistoryPush(history, x) == history \o <<x>>
HistoryUncapped(history) == history

\* history.unshift(x); if (history.length > 50) history.pop()
HistoryPop(history) == SubSeq(history, 1, Len(history) - 1)
HistoryUnshift(history, x) == <<x>> \o history
HistoryCapped(history) ==
  IF Len(history) > HISTORY_LIMIT THEN HistoryPop(history) ELSE history

\* {...session, timestamp: new Date().toISOString()}
WithTimestamp(session, t) == [session EXCEPT !.timestamp = Some(t)]

addSessionToHistory(ls, session, t) ==
  LET history == getSessionHistory(ls)
      sessionWithTimestamp == WithTimestamp(session, t)
  IN setItem(ls, "session_history",
             JSONstringify(HistoryCapped(HistoryUnshift(history, sessionWithTimestamp))))

clearSessionHistory(ls) == removeItem(ls, "session_history")

\* Object.values(STORAGE_KEYS).forEach(key => localStorage.removeItem(key))
clearAllData(ls) == [key \in DOMAIN ls |-> IF key \in STORAGE_KEYS THEN NULL ELSE ls[key]]

EmptyStorage == [key \in STORAGE_KEYS |-> NULL]
-----------------------------------------------------------------------------
(* Inputs of the model *)

\* response.text of the transcription request: blank, padded or plain text
TranscribeResponses == {" ", " T1 "}
\* response.text of the note request
GenerateResponses == {"", "M1"}
\* what the user types into the transcript textarea
TypedTranscripts == {"", "U1"}
\* what the user leaves in the note editor
TypedNotes == {"", "<p>edited</p>"}
\* template ids offered by the select
TemplateIds == {"none", "SOAP"}
\* what the user enters in the settings modal
TypedApiKeys == {"k1"}
TypedPrompts == {"custom prompt"}

\* String.prototype.trim: white space is removed from both ends
IsWhiteSpace(c) == c \in {" ", "\n", "\t"}

RECURSIVE TrimStart(_)
TrimStart(text) ==
  IF Len(text) > 0 /\ IsWhiteSpace(SubSeq(text, 1, 1))
  THEN TrimStart(SubSeq(text, 2, Len(text)))
  ELSE text

RECURSIVE TrimEnd(_)
TrimEnd(text) ==
  IF Len(text) > 0 /\ IsWhiteSpace(SubSeq(text, Len(text), Len(text)))
  THEN TrimEnd(SubSeq(text, 1, Len(text) - 1))
  ELSE text

Trim(text) == TrimEnd(TrimStart(text))

-----------------------------------------------------------------------------
(* modules/gemini-client.ts: what a settled request gives its caller *)

Resolved(text) == [ok |-> TRUE, text |-> text]
Rejected(message) == [ok |-> FALSE, text |-> message]

\* the network call itself failed
NetworkError == <<"error">>
Text(t) == <<"text", t>>

\* if (!text || text.trim().length === 0) throw ...; return text.trim()
transcribeAudio(response) ==
  IF response = NetworkError THEN Rejected("Transcription failed: network")
  ELSE IF response[2] = "" \/ Len(Trim(response[2])) = 0
       THEN Rejected("Transcription failed: Transcription returned empty result")
       ELSE Resolved(Trim(response[2]))

\* variant of generateNote without the check for a blank text
generateNoteUnchecked(response) ==
  IF response = NetworkError THEN Rejected("SOAP generation failed: network")
  ELSE Resolved(Trim(response[2]))

generateNote(response) ==
  IF response = NetworkError THEN Rejected("SOAP generation failed: network")
  ELSE IF response[2] = "" \/ Len(Trim(response[2])) = 0
       THEN Rejected("SOAP generation failed: SOAP generation returned empty result")
       ELSE Resolved(Trim(response[2]))

(* content/abbreviations.ts: the templates, each content by its first heading *)

TEMPLATES ==
  [id \in {"none", "SOAP", "inpatient-assessment", "inpatient-plan",
           "canine-wellness", "feline-wellness", "kitten-plan"} |->
     CASE id = "none" -> [name |-> "No Template", content |-> ""]
       [] id = "SOAP" ->
            [name |-> "SOAP Template", content |-> "\n## Subjective:\n"]
       [] id = "inpatient-assessment" ->
            [name |-> "Inpatient Assessment", content |-> "\n## CURRENT TREATMENTS:\n"]
       [] id = "inpatient-plan" ->
            [name |-> "Inpatient Plan", content |-> "\n## Monitoring:\n"]
       [] id = "canine-wellness" ->
            [name |-> "Canine Wellness Exam", content |-> "\n## Client Communication:\n"]
       [] id = "feline-wellness" ->
            [name |-> "Feline Wellness Exam", content |-> "\n## Client Communication:\n"]
       [] id = "kitten-plan" ->
            [name |-> "Kitten Plan", content |-> "\n## Discussed kitten care with O:\n"]]

\* TEMPLATES.get(id): Template | undefined
getTemplateById(id) == IF id \in DOMAIN TEMPLATES THEN Some(TEMPLATES[id]) ELSE NULL

(* modules/gemini-client.ts: the request of generateNote *)

analysisModel == "gemini-2.5-pro"

\* the first part of the user message: the abbreviations
AbbreviationPreamble == "The user's transcription follows. Common phrases ..."
TemplateGuide == "Use the following template as a guide for structuring the note:"
TemplateSeparator == "\n---\n"

\* variant of the parts below that tests templateContent without trimming it
GenerateNotePartsUntrimmed(tr, templateContent) ==
  IF templateContent # NULL /\ templateContent[1] # ""
  THEN <<TemplateGuide, templateContent[1], TemplateSeparator,
         AbbreviationPreamble, tr>>
  ELSE <<AbbreviationPreamble, tr>>

\* userParts; templateContent is optional: NULL when the caller gives none
GenerateNoteParts(tr, templateContent) ==
  LET userParts == <<AbbreviationPreamble, tr>>
  IN IF /\ templateContent # NULL
        /\ templateContent[1] # ""
        /\ Len(Trim(templateContent[1])) > 0
     THEN <<TemplateGuide, templateContent[1], TemplateSeparator>> \o userParts
     ELSE userParts

\* the argument of genAI.models.generateContent
GenerateNoteRequest(tr, systemPrompt, templateContent) ==
  [model |-> analysisModel,
   parts |-> GenerateNoteParts(tr, templateContent),
   systemInstruction |-> systemPrompt]

\* handleGenerateSOAP: template?.content || ''
TemplateContentOf(templateId) ==
  LET template == getTemplateById(templateId)
  IN IF template = NULL \/ template[1].content = "" THEN "" ELSE template[1].content

\* new GeminiClient(apiKey) throws when the key is empty
GeminiClientThrows(apiKey) == apiKey = ""

(* utils/markdown-renderer.ts *)

\* marked.parse on the note texts above
renderMarkdown(markdown) ==
  IF markdown = "" THEN ""
  ELSE CASE markdown = "M1" -> "<p>M1</p>"
         [] markdown = "M2" -> "<p>M2</p>"
         [] OTHER -> "<p>text</p>"

-----------------------------------------------------------------------------
(* modules/audio-recorder.ts *)

\* fields of a new AudioRecorder; audioChunks is the number of chunks held,
\* timerInterval is "null", "running" or "cleared" (a handle after clearInterval)
NewRecorder == [mediaRecorder |-> "null", stream |-> "null", startTime |-> FALSE,
                audioChunks |-> 0, timerInterval |-> "null"]

\* initialize() after getUserMedia resolved
RecorderInitialize(r) == [r EXCEPT !.stream = "open", !.mediaRecorder = "inactive"]

\* variant of the checks of start() without the one for a running recording
RecorderStartErrorNullOnly(r) ==
  IF r.mediaRecorder = "null"
  THEN Some("Recorder not initialized. Call initialize() first.")
  ELSE NULL

\* the two checks at the head of start(): the error thrown, or NULL
RecorderStartError(r) ==
  IF r.mediaRecorder = "null"
  THEN Some("Recorder not initialized. Call initialize() first.")
  ELSE IF r.mediaRecorder = "recording"
  THEN Some("Recording already in progress.")
  ELSE NULL

RecorderStartThrows(r) == r.mediaRecorder = "null" \/ r.mediaRecorder = "recording"
\* start() without onTimeUpdate, as the App calls it
RecorderStart(r) == [r EXCEPT !.audioChunks = 0, !.startTime = TRUE,
                              !.mediaRecorder = "recording"]
\* start(onTimeUpdate): also sets the timer
RecorderStartTimed(r) == [RecorderStart(r) EXCEPT !.timerInterval = "running"]

RecorderStopThrows(r) == r.mediaRecorder # "recording"
\* this.mediaRecorder.stop()
RecorderStop(r) == [r EXCEPT !.timerInterval = "null", !.mediaRecorder = "inactive"]
\* mediaRecorder.onstop: if (!this.mediaRecorder || !this.startTime) reject
RecorderOnStopRejects(r) == r.mediaRecorder = "null" \/ ~r.startTime

\* cleanup() clears a timer but keeps its handle
RecorderCleanup(r) ==
  [r EXCEPT !.timerInterval = IF @ = "null" THEN "null" ELSE "cleared",
            !.stream = "null", !.mediaRecorder = "null", !.audioChunks = 0,
            !.startTime = FALSE]
-----------------------------------------------------------------------------
(* components/App.tsx: state after construction *)

Init ==
  /\ appState = IDLE
  /\ transcript = ""
  /\ soapMarkdown = ""
  /\ soapHTML = ""
  /\ selectedTemplate = "none"
  /\ alertMessage = NULL
  /\ alertType = "info"
  /\ isSettingsOpen = FALSE
  /\ geminiClient = NULL
  /\ mounted = FALSE
  /\ recorder = NewRecorder
  /\ initPending = 0
  /\ stopPending = [hasClient \in BOOLEAN |-> 0]
  /\ transcribePending = 0
  /\ generatePending = 0
  /\ editorShown = TRUE
  /\ editorHTML = ""
  /\ rteBound = "displayed"
  /\ rteHTML = ""
  /\ localStorage = EmptyStorage
  /\ now = 0
  /\ beforeReload = NULL
  /\ lastOp = "construct"
  /\ selectionStart = 0
  /\ insertPending = <<>>
  /\ userPresent = TRUE

\* the Session object literal of the auto-save effect and of handleSaveSOAP
Session(tr, md, html, st, ts) ==
  [transcript |-> Some(tr), soap |-> Some(md), soapHTML |-> Some(html),
   state |-> Some(st), timestamp |-> ts]

\* a field of a parsed session is truthy: present and not ''
Truthy(field) == field # NULL /\ field[1] # ""

\* the model keeps that an alert is shown and its type, not its wording
AlertText(message) == "message"

\* showAlert(message, type)
ShowAlert(message, type) ==
  /\ alertMessage' = Some(AlertText(message))
  /\ alertType' = type

NoAlert == UNCHANGED <<alertMessage, alertType>>

\* useEffect(..., [appState, transcript, soapMarkdown, soapHTML]): after a render
\* in which one of them changed, persist the session unless idle or recording
AutoSaveEffect(ls, st, tr, md, html) ==
  IF /\ <<st, tr, md, html>> # <<appState, transcript, soapMarkdown, soapHTML>>
     /\ st # IDLE
     /\ st # RECORDING
  THEN setCurrentSession(ls, Session(tr, md, html, st, NULL))
  ELSE ls

\* SOAPSection: {!isGenerating && <div id="soap-content">...} unmounts the editor
\* element while generating and mounts a fresh, empty one afterwards; the
\* RichTextEditor is built once, on mount, around the first element
EditorElementShown(st) == st # GENERATING_SOAP

EditorBoundAfterRender(st) ==
  IF ~EditorElementShown(st) /\ editorShown /\ rteBound = "displayed"
  THEN "detached"
  ELSE rteBound

\* useEffect(() => { if (rte && soapHTML) rte.setHTML(soapHTML) }, [soapHTML])
SetHTMLEffectRuns(html) == html # soapHTML /\ html # ""

\* asynchronous operations outstanding
Outstanding ==
  initPending + stopPending[TRUE] + stopPending[FALSE] + transcribePending
    + generatePending

\* a render of the App with the state <<st, tr, md, html>>, the effects it
\* triggers included; ls is localStorage as the handler left it
Render(st, tr, md, html, ls) ==
  /\ appState' = st
  /\ transcript' = tr
  /\ soapMarkdown' = md
  /\ soapHTML' = html
  /\ localStorage' = AutoSaveEffect(ls, st, tr, md, html)
  /\ editorShown' = EditorElementShown(st)
  /\ rteBound' = EditorBoundAfterRender(st)
  /\ rteHTML' = IF SetHTMLEffectRuns(html) THEN html ELSE rteHTML
  /\ editorHTML' =
       IF ~EditorElementShown(st) THEN ""
       ELSE IF SetHTMLEffectRuns(html) /\ EditorBoundAfterRender(st) = "displayed"
            THEN html
            ELSE IF editorShown THEN editorHTML ELSE ""

\* the handlers and callbacks whose outcome the properties below speak about
TrackedOps ==
  {"StopThrows", "StopRejects", "StopNoClient", "TranscribeRejected",
   "GenerateNoClient", "GenerateRejected", "GenerateResolved", "handleReRecord"}

\* the handler that ran, and the end of the reload bookkeeping
Ran(op) ==
  /\ lastOp' = IF op \in TrackedOps THEN op ELSE "other"
  /\ beforeReload' = NULL

-----------------------------------------------------------------------------
(* components/App.tsx: mount *)

\* useEffect(() => {...}, []): build the client, load the template choice,
\* recover the saved session
Mount ==
  /\ ~mounted
  /\ mounted' = TRUE
  /\ LET key == getApiKey(localStorage)
         savedSession == getCurrentSession(localStorage)
         hasTranscript == savedSession # NULL /\ Truthy(savedSession[1].transcript)
         hasSoap == /\ savedSession # NULL
                    /\ Truthy(savedSession[1].soap)
                    /\ Truthy(savedSession[1].soapHTML)
         tr == IF hasTranscript THEN savedSession[1].transcript[1] ELSE transcript
         md == IF hasSoap THEN savedSession[1].soap[1] ELSE soapMarkdown
         html == IF hasSoap THEN savedSession[1].soapHTML[1] ELSE soapHTML
         st == IF hasSoap THEN SOAP_READY
               ELSE IF hasTranscript THEN TRANSCRIPT_READY ELSE appState
     IN /\ IF key # ""
           THEN /\ geminiClient' = Some(key)
                /\ NoAlert
                /\ UNCHANGED isSettingsOpen
           ELSE /\ ShowAlert("Please configure your Gemini API key in settings", "warning")
                /\ isSettingsOpen' = TRUE
                /\ UNCHANGED geminiClient
        /\ selectedTemplate' = getSelectedTemplate(localStorage)
        /\ Render(st, tr, md, html, localStorage)
  /\ lastOp' = "Mount"
  /\ UNCHANGED <<asyncVars, now, beforeReload>>
  /\ UNCHANGED <<insertVars, userPresent>>

\* window.location.reload(): the App is constructed again, the requests and the
\* recorder of the old page are gone, localStorage (ls) stays
ReloadPage(ls) ==
  /\ appState' = IDLE
  /\ transcript' = ""
  /\ soapMarkdown' = ""
  /\ soapHTML' = ""
  /\ selectedTemplate' = "none"
  /\ alertMessage' = NULL
  /\ alertType' = "info"
  /\ isSettingsOpen' = FALSE
  /\ geminiClient' = NULL
  /\ mounted' = FALSE
  /\ recorder' = NewRecorder
  /\ initPending' = 0
  /\ stopPending' = [hasClient \in BOOLEAN |-> 0]
  /\ transcribePending' = 0
  /\ generatePending' = 0
  /\ editorShown' = TRUE
  /\ editorHTML' = ""
  /\ rteBound' = "displayed"
  /\ rteHTML' = ""
  /\ localStorage' = ls
  /\ UNCHANGED now
  /\ UNCHANGED <<insertVars, userPresent>>

\* the user reloads the page
Reload ==
  /\ mounted
  /\ ReloadPage(localStorage)
  /\ beforeReload' = Some([state |-> appState, transcript |-> transcript,
                           soap |-> soapMarkdown, soapHTML |-> soapHTML])
  /\ lastOp' = "Reload"

-----------------------------------------------------------------------------
(* components/App.tsx: recording handlers *)

\* RecordingSection renders Start Recording unless appState is RECORDING
StartButtonShown == appState # RECORDING
StopButtonShown == appState = RECORDING

\* handleStartRecording up to `await audioRecorder.initialize()`
ClickStartRecording ==
  /\ mounted
  /\ StartButtonShown
  /\ Outstanding < MaxPending
  /\ initPending' = initPending + 1
  /\ Ran("ClickStartRecording")
  /\ UNCHANGED <<appVars, editorVars, localStorage, now, recorder, stopPending,
                 transcribePending, generatePending>>
  /\ UNCHANGED <<insertVars, userPresent>>

\* getUserMedia resolved: initialize() returns, start(), setAppState(RECORDING)
InitializeResolve ==
  /\ initPending > 0
  /\ initPending' = initPending - 1
  /\ recorder' = RecorderStart(RecorderInitialize(recorder))
  /\ ShowAlert("Recording started", "success")
  /\ Render(RECORDING, transcript, soapMarkdown, soapHTML, localStorage)
  /\ Ran("InitializeResolve")
  /\ UNCHANGED <<selectedTemplate, isSettingsOpen, geminiClient, mounted, now,
                 stopPending, transcribePending, generatePending>>
  /\ UNCHANGED <<insertVars, userPresent>>

\* initialize() threw (unsupported browser, permission denied, no microphone)
InitializeReject ==
  /\ initPending > 0
  /\ initPending' = initPending - 1
  /\ ShowAlert("Failed to initialize audio recorder", "error")
  /\ Ran("InitializeReject")
  /\ UNCHANGED <<appState, transcript, soapMarkdown, soapHTML, selectedTemplate,
                 isSettingsOpen, geminiClient, mounted, editorVars, localStorage,
                 now, recorder, stopPending, transcribePending, generatePending>>
  /\ UNCHANGED <<insertVars, userPresent>>

\* variant of the catch below that leaves appState where the failed call put it
StopRecordingCatchKeepsState(message, op) ==
  /\ ShowAlert(message, "error")
  /\ Render(IF op = "StopThrows" THEN appState ELSE TRANSCRIBING,
            transcript, soapMarkdown, soapHTML, localStorage)
  /\ Ran(op)

\* catch of handleStopRecording: showAlert(errorMsg, 'error'); setAppState(IDLE)
StopRecordingCatch(message, op) ==
  /\ ShowAlert(message, "error")
  /\ Render(IDLE, transcript, soapMarkdown, soapHTML, localStorage)
  /\ Ran(op)

\* handleStopRecording up to `await audioRecorder.stop()`: stop() throws when no
\* recording is active, else asks the MediaRecorder to stop
ClickStopRecording ==
  /\ mounted
  /\ StopButtonShown
  /\ IF RecorderStopThrows(recorder)
     THEN /\ StopRecordingCatch("No active recording to stop.", "StopThrows")
          /\ UNCHANGED <<recorder, stopPending>>
     ELSE /\ Outstanding < MaxPending
          /\ recorder' = RecorderStop(recorder)
          /\ stopPending' = [stopPending EXCEPT ![geminiClient # NULL] = @ + 1]
          /\ Ran("ClickStopRecording")
          /\ UNCHANGED <<appState, transcript, soapMarkdown, soapHTML, alertMessage,
                         alertType, editorVars, localStorage>>
  /\ UNCHANGED <<selectedTemplate, isSettingsOpen, geminiClient, mounted, now,
                 initPending, transcribePending, generatePending>>
  /\ UNCHANGED <<insertVars, userPresent>>

\* mediaRecorder.onstop of a pending stop(): the promise settles, and on success
\* the handler sets TRANSCRIBING and issues transcribeAudio with the client its
\* closure holds, or throws when that is null
RecorderOnStop(hasClient) ==
  /\ stopPending[hasClient] > 0
  /\ stopPending' = [stopPending EXCEPT ![hasClient] = @ - 1]
  /\ IF RecorderOnStopRejects(recorder)
     THEN /\ StopRecordingCatch("Recording state invalid", "StopRejects")
          /\ UNCHANGED transcribePending
     ELSE IF ~hasClient
     THEN /\ StopRecordingCatch("Gemini client not initialized", "StopNoClient")
          /\ UNCHANGED transcribePending
     ELSE /\ transcribePending' = transcribePending + 1
          /\ Render(TRANSCRIBING, transcript, soapMarkdown, soapHTML, localStorage)
          /\ Ran("TranscribeIssued")
          /\ NoAlert
  /\ UNCHANGED <<selectedTemplate, isSettingsOpen, geminiClient, mounted, now,
                 recorder, initPending, generatePending>>
  /\ UNCHANGED <<insertVars, userPresent>>

\* mediaRecorder.onerror of a pending stop(): the promise rejects
RecorderOnError(hasClient) ==
  /\ stopPending[hasClient] > 0
  /\ stopPending' = [stopPending EXCEPT ![hasClient] = @ - 1]
  /\ StopRecordingCatch("Recording error: Unknown error", "StopRejects")
  /\ UNCHANGED <<selectedTemplate, isSettingsOpen, geminiClient, mounted, now,
                 recorder, initPending, transcribePending, generatePending>>
  /\ UNCHANGED <<insertVars, userPresent>>

\* a transcribeAudio request settles: the rest of handleStopRecording
TranscribeSettles(response) ==
  /\ transcribePending > 0
  /\ transcribePending' = transcribePending - 1
  /\ LET result == transcribeAudio(response)
     IN IF result.ok
        THEN /\ ShowAlert("Transcription complete!", "success")
             /\ Render(TRANSCRIPT_READY, result.text, soapMarkdown, soapHTML, localStorage)
             /\ recorder' = RecorderCleanup(recorder)
             /\ Ran("TranscribeResolved")
        ELSE /\ StopRecordingCatch(result.text, "TranscribeRejected")
             /\ UNCHANGED recorder
  /\ UNCHANGED <<selectedTemplate, isSettingsOpen, geminiClient, mounted, now,
                 initPending, stopPending, generatePending>>
  /\ UNCHANGED <<insertVars, userPresent>>
-----------------------------------------------------------------------------
(* components/App.tsx and TranscriptSection.tsx: transcript handlers *)

\* TranscriptSection renders the textarea, the template select and its buttons
\* unless appState is TRANSCRIBING
TranscriptContentShown == appState # TRANSCRIBING

\* onInput of the textarea: onTranscriptChange = setTranscript
EditTranscript(value) ==
  /\ mounted
  /\ TranscriptContentShown
  /\ value # transcript
  /\ Render(appState, value, soapMarkdown, soapHTML, localStorage)
  /\ Ran("EditTranscript")
  /\ UNCHANGED <<selectedTemplate, alertMessage, alertType, isSettingsOpen,
                 geminiClient, mounted, asyncVars, now>>
  /\ UNCHANGED <<insertVars, userPresent>>

\* onChange of the template select: onTemplateChange = setSelectedTemplate
ChangeTemplate(templateId) ==
  /\ mounted
  /\ TranscriptContentShown
  /\ templateId # selectedTemplate
  /\ selectedTemplate' = templateId
  /\ Ran("ChangeTemplate")
  /\ UNCHANGED <<appState, transcript, soapMarkdown, soapHTML, alertMessage,
                 alertType, isSettingsOpen, geminiClient, mounted, asyncVars,
                 editorVars, localStorage, now>>
  /\ UNCHANGED <<insertVars, userPresent>>

\* Re-record button: disabled={!hasTranscript}
ReRecordEnabled == TranscriptContentShown /\ Len(transcript) > 0

\* variant of handleReRecord that calls Storage.clearAllData()
handleReRecordClearsAll ==
  /\ mounted
  /\ ReRecordEnabled
  /\ Render(IDLE, "", "", "", clearAllData(localStorage))
  /\ Ran("handleReRecord")
  /\ UNCHANGED <<selectedTemplate, alertMessage, alertType, isSettingsOpen,
                 geminiClient, mounted, asyncVars, now>>
  /\ UNCHANGED <<insertVars, userPresent>>

handleReRecord ==
  /\ mounted
  /\ ReRecordEnabled
  /\ Render(IDLE, "", "", "", clearCurrentSession(localStorage))
  /\ Ran("handleReRecord")
  /\ UNCHANGED <<selectedTemplate, alertMessage, alertType, isSettingsOpen,
                 geminiClient, mounted, asyncVars, now>>
  /\ UNCHANGED <<insertVars, userPresent>>

\* Generate SOAP Note: disabled={!isTranscriptReady};
\* Regenerate (SOAPSection, rendered unless generating): disabled={!hasContent}
GenerateButtonEnabled == TranscriptContentShown /\ appState = TRANSCRIPT_READY
RegenerateButtonEnabled == appState # GENERATING_SOAP /\ Len(soapHTML) > 0

\* variant of the catch below that also drops the note
GenerateCatchClearsNote(message, op) ==
  /\ ShowAlert(message, "error")
  /\ Render(TRANSCRIPT_READY, transcript, "", "", localStorage)
  /\ Ran(op)

\* variant of the catch below that shows the alert only
GenerateCatchKeepsState(message, op) ==
  /\ ShowAlert(message, "error")
  /\ Render(appState, transcript, soapMarkdown, soapHTML, localStorage)
  /\ Ran(op)

\* catch of handleGenerateSOAP: showAlert(errorMsg, 'error');
\* setAppState(TRANSCRIPT_READY)
GenerateCatch(message, op) ==
  /\ ShowAlert(message, "error")
  /\ Render(TRANSCRIPT_READY, transcript, soapMarkdown, soapHTML, localStorage)
  /\ Ran(op)

\* handleGenerateSOAP up to `await geminiClient.generateNote(...)`
ClickGenerateSOAP ==
  /\ mounted
  /\ GenerateButtonEnabled \/ RegenerateButtonEnabled
  /\ IF geminiClient = NULL
     THEN /\ GenerateCatch("Gemini client not initialized", "GenerateNoClient")
          /\ UNCHANGED generatePending
     ELSE /\ Outstanding < MaxPending
          /\ generatePending' = generatePending + 1
          /\ Render(GENERATING_SOAP, transcript, soapMarkdown, soapHTML,
                    setSelectedTemplate(localStorage, selectedTemplate))
          /\ NoAlert
          /\ Ran("GenerateIssued")
  /\ UNCHANGED <<selectedTemplate, isSettingsOpen, geminiClient, mounted, now,
                 recorder, initPending, stopPending, transcribePending>>
  /\ UNCHANGED <<insertVars, userPresent>>

\* a generateNote request settles: the rest of handleGenerateSOAP
GenerateSettles(response) ==
  /\ generatePending > 0
  /\ generatePending' = generatePending - 1
  /\ LET result == generateNote(response)
     IN IF result.ok
        THEN /\ ShowAlert("SOAP note generated!", "success")
             /\ Render(SOAP_READY, transcript, result.text, renderMarkdown(result.text),
                       localStorage)
             /\ Ran("GenerateResolved")
        ELSE GenerateCatch(result.text, "GenerateRejected")
  /\ UNCHANGED <<selectedTemplate, isSettingsOpen, geminiClient, mounted, now,
                 recorder, initPending, stopPending, transcribePending>>
  /\ UNCHANGED <<insertVars, userPresent>>

-----------------------------------------------------------------------------
(* components/SOAPSection.tsx and App.tsx: note handlers *)

\* the user edits the displayed contenteditable element; no listener of the
\* App is attached to it
EditNote(html) ==
  /\ mounted
  /\ editorShown
  /\ html # editorHTML
  /\ editorHTML' = html
  /\ rteHTML' = IF rteBound = "displayed" THEN html ELSE rteHTML
  /\ Ran("EditNote")
  /\ UNCHANGED <<appVars, asyncVars, editorShown, rteBound, localStorage, now>>
  /\ UNCHANGED <<insertVars, userPresent>>

\* Copy and Save: rendered unless generating, disabled={!hasContent}
NoteButtonsEnabled == appState # GENERATING_SOAP /\ Len(soapHTML) > 0

\* richTextEditorRef.current.getHTML()
RichTextEditorGetHTML == rteHTML

\* SOAPSection.handleSave, then App.handleSaveSOAP(html)
handleSaveSOAP ==
  /\ mounted
  /\ NoteButtonsEnabled
  /\ now < MaxSaves
  /\ LET html == RichTextEditorGetHTML
     IN Render(appState, transcript, soapMarkdown, html,
               addSessionToHistory(localStorage,
                   Session(transcript, soapMarkdown, html, appState, Some(now)), now))
  /\ now' = now + 1
  /\ ShowAlert("Session saved to history", "success")
  /\ Ran("handleSaveSOAP")
  /\ UNCHANGED <<selectedTemplate, isSettingsOpen, geminiClient, mounted, asyncVars>>
  /\ UNCHANGED <<insertVars, userPresent>>

\* SOAPSection.handleCopy, then App.handleCopySOAP(html, text)
handleCopySOAP(success) ==
  /\ mounted
  /\ NoteButtonsEnabled
  /\ IF success
     THEN ShowAlert("Copied to clipboard!", "success")
     ELSE ShowAlert("Failed to copy to clipboard", "error")
  /\ Ran("handleCopySOAP")
  /\ UNCHANGED <<appState, transcript, soapMarkdown, soapHTML, selectedTemplate,
                 isSettingsOpen, geminiClient, mounted, asyncVars, editorVars,
                 localStorage, now>>
  /\ UNCHANGED <<insertVars, userPresent>>
-----------------------------------------------------------------------------
(* components/App.tsx and SettingsModal: settings handlers *)

handleSettingsOpen ==
  /\ mounted
  /\ ~isSettingsOpen
  /\ isSettingsOpen' = TRUE
  /\ Ran("handleSettingsOpen")
  /\ UNCHANGED <<appState, transcript, soapMarkdown, soapHTML, selectedTemplate,
                 alertMessage, alertType, geminiClient, mounted, asyncVars,
                 editorVars, localStorage, now>>
  /\ UNCHANGED <<insertVars, userPresent>>

handleSettingsClose ==
  /\ mounted
  /\ isSettingsOpen
  /\ isSettingsOpen' = FALSE
  /\ Ran("handleSettingsClose")
  /\ UNCHANGED <<appState, transcript, soapMarkdown, soapHTML, selectedTemplate,
                 alertMessage, alertType, geminiClient, mounted, asyncVars,
                 editorVars, localStorage, now>>
  /\ UNCHANGED <<insertVars, userPresent>>

\* SettingsModal.handleSave: onSave(apiKey, systemPrompt); onClose().
\* handleSettingsSave stores both, then builds the client, whose constructor
\* throws on an empty key: nothing after it runs
handleSettingsSave(newApiKey, systemPrompt) ==
  /\ mounted
  /\ isSettingsOpen
  /\ localStorage' = setSystemPrompt(setApiKey(localStorage, newApiKey), systemPrompt)
  /\ IF GeminiClientThrows(newApiKey)
     THEN UNCHANGED <<geminiClient, alertMessage, alertType, isSettingsOpen>>
     ELSE /\ geminiClient' = Some(newApiKey)
          /\ ShowAlert("Settings saved!", "success")
          /\ isSettingsOpen' = FALSE
  /\ Ran("handleSettingsSave")
  /\ UNCHANGED <<appState, transcript, soapMarkdown, soapHTML, selectedTemplate,
                 mounted, asyncVars, editorVars, now>>
  /\ UNCHANGED <<insertVars, userPresent>>

\* SettingsModal.handleClearSession: Storage.clearCurrentSession(); reload
handleClearSession ==
  /\ mounted
  /\ isSettingsOpen
  /\ ReloadPage(clearCurrentSession(localStorage))
  /\ Ran("handleClearSession")

\* SettingsModal.handleClearAll: Storage.clearAllData(); reload
handleClearAll ==
  /\ mounted
  /\ isSettingsOpen
  /\ ReloadPage(clearAllData(localStorage))
  /\ Ran("handleClearAll")

\* the 5 s timer of showAlert fires, or the user closes the alert
DismissAlert ==
  /\ mounted
  /\ alertMessage # NULL
  /\ alertMessage' = NULL
  /\ Ran("DismissAlert")
  /\ UNCHANGED <<appState, transcript, soapMarkdown, soapHTML, selectedTemplate,
                 alertType, isSettingsOpen, geminiClient, mounted, asyncVars,
                 editorVars, localStorage, now>>
  /\ UNCHANGED <<insertVars, userPresent>>

-----------------------------------------------------------------------------
(* The App specifications *)

Responses(texts) == {NetworkError} \cup {Text(t) : t \in texts}

\* every handler and callback of the page but the save to the history
Next ==
  \/ Mount
  \/ Reload
  \/ ClickStartRecording
  \/ InitializeResolve
  \/ InitializeReject
  \/ ClickStopRecording
  \/ \E hasClient \in BOOLEAN : RecorderOnStop(hasClient)
  \/ \E hasClient \in BOOLEAN : RecorderOnError(hasClient)
  \/ \E response \in Responses(TranscribeResponses) : TranscribeSettles(response)
  \/ \E value \in TypedTranscripts : EditTranscript(value)
  \/ \E templateId \in TemplateIds : ChangeTemplate(templateId)
  \/ handleReRecord
  \/ ClickGenerateSOAP
  \/ \E response \in Responses(GenerateResponses) : GenerateSettles(response)
  \/ \E html \in TypedNotes : EditNote(html)
  \/ \E success \in BOOLEAN : handleCopySOAP(success)
  \/ handleSettingsOpen
  \/ handleSettingsClose
  \/ \E newApiKey \in TypedApiKeys, systemPrompt \in TypedPrompts :
       handleSettingsSave(newApiKey, systemPrompt)
  \/ handleClearSession
  \/ handleClearAll
  \/ DismissAlert

Spec == Init /\ [][Next]_vars

\* recording, generating, editing and saving a note, reloading and clearing:
\* the path of a session into the history
NextSave ==
  \/ Mount
  \/ Reload
  \/ ClickStartRecording
  \/ InitializeResolve
  \/ ClickStopRecording
  \/ \E hasClient \in BOOLEAN : RecorderOnStop(hasClient)
  \/ \E response \in Responses(TranscribeResponses) : TranscribeSettles(response)
  \/ \E templateId \in TemplateIds : ChangeTemplate(templateId)
  \/ handleReRecord
  \/ ClickGenerateSOAP
  \/ \E response \in Responses(GenerateResponses) : GenerateSettles(response)
  \/ \E html \in TypedNotes : EditNote(html)
  \/ handleSaveSOAP
  \/ \E newApiKey \in TypedApiKeys, systemPrompt \in TypedPrompts :
       handleSettingsSave(newApiKey, systemPrompt)
  \/ handleClearSession
  \/ handleClearAll

SpecSave == Init /\ [][NextSave]_vars

-----------------------------------------------------------------------------
(* The Storage specification: the calls of modules/storage.ts on their own *)

\* the session handed to addSessionToHistory, with or without a timestamp of
\* its own
SavedSessions ==
  {Session("T1", "M1", "<p>M1</p>", SOAP_READY, ts) : ts \in {NULL, Some(0)}}

\* the history is absent or empty
InitStorage ==
  /\ appState = IDLE
  /\ transcript = ""
  /\ soapMarkdown = ""
  /\ soapHTML = ""
  /\ selectedTemplate = "none"
  /\ alertMessage = NULL
  /\ alertType = "info"
  /\ isSettingsOpen = FALSE
  /\ geminiClient = NULL
  /\ mounted = FALSE
  /\ recorder = NewRecorder
  /\ initPending = 0
  /\ stopPending = [hasClient \in BOOLEAN |-> 0]
  /\ transcribePending = 0
  /\ generatePending = 0
  /\ editorShown = TRUE
  /\ editorHTML = ""
  /\ rteBound = "displayed"
  /\ rteHTML = ""
  /\ localStorage \in {EmptyStorage,
                        setItem(EmptyStorage, "session_history", JSONstringify(<<>>))}
  /\ now = 1
  /\ beforeReload = NULL
  /\ lastOp = <<"construct">>
  /\ selectionStart = 0
  /\ insertPending = <<>>
  /\ userPresent = TRUE

\* Storage.addSessionToHistory(session); the clock moves on.  lastOp keeps the
\* call, its argument and the history it was applied to
CallAddSessionToHistory(session) ==
  /\ now < MaxClock
  /\ localStorage' = addSessionToHistory(localStorage, session, now)
  /\ now' = now + 1
  /\ lastOp' = <<"addSessionToHistory", session, getSessionHistory(localStorage)>>
  /\ UNCHANGED <<appVars, asyncVars, editorVars, beforeReload>>
  /\ UNCHANGED <<insertVars, userPresent>>

CallClearSessionHistory ==
  /\ localStorage' = clearSessionHistory(localStorage)
  /\ lastOp' = <<"clearSessionHistory">>
  /\ UNCHANGED <<appVars, asyncVars, editorVars, now, beforeReload>>
  /\ UNCHANGED <<insertVars, userPresent>>

\* Storage.clearAllData(); lastOp keeps what was stored before
CallClearAllData ==
  /\ localStorage' = clearAllData(localStorage)
  /\ lastOp' = <<"clearAllData", localStorage>>
  /\ UNCHANGED <<appVars, asyncVars, editorVars, now, beforeReload>>
  /\ UNCHANGED <<insertVars, userPresent>>

NextStorage ==
  \/ \E session \in SavedSessions : CallAddSessionToHistory(session)
  \/ CallClearSessionHistory
  \/ CallClearAllData

SpecStorage == InitStorage /\ [][NextStorage]_vars

-----------------------------------------------------------------------------
(* The settings specification: every setter of modules/storage.ts *)

\* what callers hand to the setters
StoredApiKeys == {"", "k1"}
StoredPrompts == {"", "custom prompt"}

\* as InitStorage, with the clock close to its bound: few sessions are added
InitSettings ==
  /\ appState = IDLE
  /\ transcript = ""
  /\ soapMarkdown = ""
  /\ soapHTML = ""
  /\ selectedTemplate = "none"
  /\ alertMessage = NULL
  /\ alertType = "info"
  /\ isSettingsOpen = FALSE
  /\ geminiClient = NULL
  /\ mounted = FALSE
  /\ recorder = NewRecorder
  /\ initPending = 0
  /\ stopPending = [hasClient \in BOOLEAN |-> 0]
  /\ transcribePending = 0
  /\ generatePending = 0
  /\ editorShown = TRUE
  /\ editorHTML = ""
  /\ rteBound = "displayed"
  /\ rteHTML = ""
  /\ localStorage = EmptyStorage
  /\ now = MaxClock - 2
  /\ beforeReload = NULL
  /\ lastOp = <<"construct">>
  /\ selectionStart = 0
  /\ insertPending = <<>>
  /\ userPresent = TRUE

\* a setter that writes localStorage and nothing else
CallSetter(ls, op) ==
  /\ localStorage' = ls
  /\ lastOp' = op
  /\ UNCHANGED <<appVars, asyncVars, editorVars, now, beforeReload>>
  /\ UNCHANGED <<insertVars, userPresent>>

CallSetApiKey(key) == CallSetter(setApiKey(localStorage, key), <<"setApiKey", key>>)
CallClearApiKey == CallSetter(clearApiKey(localStorage), <<"clearApiKey">>)
CallSetSystemPrompt(prompt) ==
  CallSetter(setSystemPrompt(localStorage, prompt), <<"setSystemPrompt", prompt>>)
CallResetSystemPrompt ==
  CallSetter(resetSystemPrompt(localStorage), <<"resetSystemPrompt">>)
CallSetSelectedTemplate(templateId) ==
  CallSetter(setSelectedTemplate(localStorage, templateId),
             <<"setSelectedTemplate", templateId>>)
CallSetCurrentSession(session) ==
  CallSetter(setCurrentSession(localStorage, session), <<"setCurrentSession", session>>)
CallClearCurrentSession ==
  CallSetter(clearCurrentSession(localStorage), <<"clearCurrentSession">>)

NextSettings ==
  \/ \E key \in StoredApiKeys : CallSetApiKey(key)
  \/ CallClearApiKey
  \/ \E prompt \in StoredPrompts : CallSetSystemPrompt(prompt)
  \/ CallResetSystemPrompt
  \/ \E templateId \in TemplateIds : CallSetSelectedTemplate(templateId)
  \/ \E session \in SavedSessions : CallSetCurrentSession(session)
  \/ CallClearCurrentSession
  \/ \E session \in SavedSessions : CallAddSessionToHistory(session)
  \/ CallClearSessionHistory
  \/ CallClearAllData

SpecSettings == InitSettings /\ [][NextSettings]_vars

-----------------------------------------------------------------------------
(* Properties of the session history (SpecStorage) *)

\* C1: after any sequence of addSessionToHistory calls, interleaved with
\* clearSessionHistory and clearAllData and starting from an absent or empty
\* history, getSessionHistory never returns more than 50 entries
HistoryBounded == Len(getSessionHistory(localStorage)) <= HISTORY_LIMIT

\* a session was added to a history that already held 50 entries
HistoryBoundedWitness ==
  /\ lastOp[1] = "addSessionToHistory"
  /\ Len(lastOp[3]) = HISTORY_LIMIT
  /\ Len(getSessionHistory(localStorage)) = HISTORY_LIMIT

\* C2: addSessionToHistory(s) applied to a history h yields s, with the
\* timestamp of the call, at index 0, followed by the entries of h in their
\* order; when h holds 50 entries the one dropped is the last, the oldest
NewestFirst ==
  [][lastOp'[1] = "addSessionToHistory" =>
       LET s == lastOp'[2]
           h == getSessionHistory(localStorage)
           after == getSessionHistory(localStorage')
       IN /\ Len(after) >= 1
          /\ after[1] = [s EXCEPT !.timestamp = Some(now)]
          /\ Tail(after) = IF Len(h) = HISTORY_LIMIT
                            THEN SubSeq(h, 1, HISTORY_LIMIT - 1)
                            ELSE h
          /\ \A i \in 1..Len(h) : h[i].timestamp[1] < now
          /\ \A i \in 1..(Len(after) - 1) :
                after[i].timestamp[1] > after[i + 1].timestamp[1]]_vars

\* a session that came with a timestamp of its own was added to a full history
NewestFirstWitness ==
  /\ lastOp[1] = "addSessionToHistory"
  /\ lastOp[2].timestamp # NULL
  /\ Len(lastOp[3]) = HISTORY_LIMIT
  /\ getSessionHistory(localStorage)[1].timestamp = Some(now - 1)
  /\ getSessionHistory(localStorage)[1].timestamp # lastOp[2].timestamp

-----------------------------------------------------------------------------
(* Properties of the workflow (Spec) *)

\* position of a state in idle -> recording -> transcribing -> transcript-ready
\* -> generating -> note-ready
WorkflowOrder(st) ==
  CASE st = IDLE -> 0
    [] st = RECORDING -> 1
    [] st = TRANSCRIBING -> 2
    [] st = TRANSCRIPT_READY -> 3
    [] st = GENERATING_SOAP -> 4
    [] st = SOAP_READY -> 5

\* C3: every change of appState (the recovery of a saved session at page load
\* aside) advances one step along the workflow or returns to an earlier state;
\* RECORDING is entered only from IDLE
LinearWorkflow ==
  [][(appState' # appState /\ lastOp' # "Mount") =>
       /\ \/ WorkflowOrder(appState') = WorkflowOrder(appState) + 1
          \/ WorkflowOrder(appState') < WorkflowOrder(appState)
       /\ appState' = RECORDING => appState = IDLE]_vars

\* C4: at most one transcribeAudio request and at most one generateNote
\* request is in flight
SingleRequestInFlight == transcribePending <= 1 /\ generatePending <= 1

StopFailureOps == {"StopThrows", "StopRejects", "StopNoClient", "TranscribeRejected"}

\* C5: when stop() or the transcription fails in handleStopRecording, an error
\* alert is shown, appState is IDLE, the transcript and the note are as before,
\* and the failure issues no request and starts no recording
StopFailureHandled ==
  [][lastOp' \in StopFailureOps =>
       /\ alertMessage' # NULL
       /\ alertType' = "error"
       /\ appState' = IDLE
       /\ transcript' = transcript
       /\ soapMarkdown' = soapMarkdown
       /\ soapHTML' = soapHTML
       /\ transcribePending' <= transcribePending
       /\ generatePending' = generatePending
       /\ initPending' = initPending
       /\ \A hasClient \in BOOLEAN : stopPending'[hasClient] <= stopPending[hasClient]
       /\ recorder' = recorder]_vars

\* a transcription failed while a transcript and a note existed
StopFailureWitness ==
  /\ lastOp = "TranscribeRejected"
  /\ transcript # ""
  /\ soapMarkdown # ""
  /\ soapHTML # ""
  /\ appState = IDLE
  /\ alertType = "error"

GenerateFailureOps == {"GenerateNoClient", "GenerateRejected"}

\* C6: when note generation fails (rejected request, blank text, no client), an
\* error alert is shown, appState is TRANSCRIPT_READY, and the transcript and
\* the note generated before (markdown and HTML) are as before
GenerateFailureHandled ==
  [][lastOp' \in GenerateFailureOps =>
       /\ alertMessage' # NULL
       /\ alertType' = "error"
       /\ appState' = TRANSCRIPT_READY
       /\ transcript' = transcript
       /\ soapMarkdown' = soapMarkdown
       /\ soapHTML' = soapHTML]_vars

\* a regeneration failed while a note existed
GenerateFailureWitness ==
  /\ lastOp = "GenerateRejected"
  /\ soapMarkdown = "M1"
  /\ soapHTML = renderMarkdown("M1")
  /\ transcript # ""
  /\ appState = TRANSCRIPT_READY

\* C7: when the page is reloaded in TRANSCRIPT_READY or SOAP_READY, the
\* transcript, the note markdown and the note HTML after the mount logic equal
\* those held before the reload
RecoveryLosesNoData ==
  [][(/\ lastOp' = "Mount"
      /\ beforeReload # NULL
      /\ beforeReload[1].state \in {TRANSCRIPT_READY, SOAP_READY}) =>
       /\ transcript' = beforeReload[1].transcript
       /\ soapMarkdown' = beforeReload[1].soap
       /\ soapHTML' = beforeReload[1].soapHTML]_vars

\* the user changes the content of the displayed note editor in SOAP_READY
NoteEdited ==
  /\ appState = SOAP_READY
  /\ editorShown
  /\ editorHTML' # editorHTML
  /\ UNCHANGED <<appState, transcript, soapMarkdown, soapHTML, editorShown>>

\* C8: after every edit of the note editor the persisted current session holds
\* the edited note HTML
NoteEditsAutoSaved ==
  [][NoteEdited =>
       /\ getCurrentSession(localStorage') # NULL
       /\ getCurrentSession(localStorage')[1].soapHTML = Some(editorHTML')]_vars

\* C9: after a successful generation the displayed editor element contains the
\* HTML rendered from the generated markdown, and it is the element Copy and
\* Save read
GeneratedNoteDisplayed ==
  lastOp = "GenerateResolved" =>
    /\ editorShown
    /\ editorHTML = renderMarkdown(soapMarkdown)
    /\ rteBound = "displayed"
    /\ RichTextEditorGetHTML = editorHTML

\* C12: while no API key is configured no recording is started: no microphone
\* is requested or held and appState is not RECORDING
NoRecordingWithoutApiKey ==
  ~hasApiKey(localStorage) =>
    /\ initPending = 0
    /\ recorder.stream = "null"
    /\ appState # RECORDING

-----------------------------------------------------------------------------
(* Properties of a session on its way to the history (SpecSave) *)

\* C10: immediately after handleReRecord the transcript, the note markdown and
\* the note HTML are empty, appState is IDLE and the persisted current session
\* is removed; the API key, the system prompt, the selected template and the
\* session history are as before
ReRecordStartsOver ==
  [][lastOp' = "handleReRecord" =>
       /\ transcript' = ""
       /\ soapMarkdown' = ""
       /\ soapHTML' = ""
       /\ appState' = IDLE
       /\ getCurrentSession(localStorage') = NULL
       /\ getItem(localStorage', "current_session") = NULL
       /\ getItem(localStorage', "gemini_api_key") = getItem(localStorage, "gemini_api_key")
       /\ getItem(localStorage', "system_prompt") = getItem(localStorage, "system_prompt")
       /\ getItem(localStorage', "selected_template")
            = getItem(localStorage, "selected_template")
       /\ selectedTemplate' = selectedTemplate
       /\ geminiClient' = geminiClient
       /\ getSessionHistory(localStorage') = getSessionHistory(localStorage)]_vars

\* Re-record ran with a key, a prompt, a template and a saved session in place
ReRecordWitness ==
  /\ lastOp = "handleReRecord"
  /\ appState = IDLE
  /\ getCurrentSession(localStorage) = NULL
  /\ hasApiKey(localStorage)
  /\ getSystemPrompt(localStorage) = "custom prompt"
  /\ getSelectedTemplate(localStorage) = "SOAP"
  /\ selectedTemplate = "SOAP"
  /\ Len(getSessionHistory(localStorage)) = 1

-----------------------------------------------------------------------------
(* The request specification: generateNote called on its own and by the App *)

RequestTranscripts == {"", "T1", "U1", " T1 ", "T1 U1"}
RequestPrompts == {DEFAULT_SYSTEM_PROMPT, "custom prompt"}
RequestTemplateContents ==
  {NULL, Some(""), Some(" "), Some("\n")}
    \cup {Some(TEMPLATES[id].content) : id \in DOMAIN TEMPLATES}
RequestTemplateIds == DOMAIN TEMPLATES \cup {"unknown"}

InitRequest ==
  /\ appState = TRANSCRIPT_READY
  /\ transcript = ""
  /\ soapMarkdown = ""
  /\ soapHTML = ""
  /\ selectedTemplate = "none"
  /\ alertMessage = NULL
  /\ alertType = "info"
  /\ isSettingsOpen = FALSE
  /\ geminiClient = Some("k1")
  /\ mounted = TRUE
  /\ recorder = NewRecorder
  /\ initPending = 0
  /\ stopPending = [hasClient \in BOOLEAN |-> 0]
  /\ transcribePending = 0
  /\ generatePending = 0
  /\ editorShown = TRUE
  /\ editorHTML = ""
  /\ rteBound = "displayed"
  /\ rteHTML = ""
  /\ localStorage = setApiKey(EmptyStorage, "k1")
  /\ now = 0
  /\ beforeReload = NULL
  /\ lastOp = <<"construct">>
  /\ selectionStart = 0
  /\ insertPending = <<>>
  /\ userPresent = TRUE

\* geminiClient.generateNote(transcript, systemPrompt, templateContent) up to
\* the request; lastOp keeps the arguments and the request
CallGenerateNote(tr, systemPrompt, templateContent) ==
  /\ lastOp' = <<"generateNote", tr, systemPrompt, templateContent,
                 GenerateNoteRequest(tr, systemPrompt, templateContent)>>
  /\ UNCHANGED <<appVars, asyncVars, editorVars, localStorage, now, beforeReload>>
  /\ UNCHANGED <<insertVars, userPresent>>

\* the request handleGenerateSOAP issues for a transcript and a selected template
CallHandleGenerateSOAP(tr, templateId) ==
  /\ lastOp' = <<"handleGenerateSOAP", tr, getSystemPrompt(localStorage), templateId,
                 GenerateNoteRequest(tr, getSystemPrompt(localStorage),
                                     Some(TemplateContentOf(templateId)))>>
  /\ UNCHANGED <<appVars, asyncVars, editorVars, localStorage, now, beforeReload>>
  /\ UNCHANGED <<insertVars, userPresent>>

NextRequest ==
  \/ \E tr \in RequestTranscripts, systemPrompt \in RequestPrompts,
        templateContent \in RequestTemplateContents :
       CallGenerateNote(tr, systemPrompt, templateContent)
  \/ \E tr \in RequestTranscripts, templateId \in RequestTemplateIds :
       CallHandleGenerateSOAP(tr, templateId)

SpecRequest == InitRequest /\ [][NextRequest]_vars

-----------------------------------------------------------------------------
(* The insert-at-cursor App: handleStartRecording and handleStopRecording with
   the transcript textarea of TranscriptSection.  The textarea is rendered in
   every state and is never disabled.  The App has no auto-save effect. *)

\* longest transcript a handleStopRecording call of the model captures
MaxTranscriptLen == 2

Min(a, b) == IF a < b THEN a ELSE b

\* String.prototype.slice(0, pos) and slice(pos), pos >= 0
SliceTo(text, pos) == SubSeq(text, 1, Min(pos, Len(text)))
SliceFrom(text, pos) == IF pos >= Len(text) THEN "" ELSE SubSeq(text, pos + 1, Len(text))

\* before + transcribedText + after, with `base` the transcript that is sliced
InsertAt(base, pos, text) == SliceTo(base, pos) \o text \o SliceFrom(base, pos)

InsertTypedTranscripts == {"", "U1"}
InsertResponses == {NetworkError, Text(" "), Text(" T1 ")}

insertNoteVars == <<soapMarkdown, soapHTML, generatePending>>
insertFrame == <<selectedTemplate, isSettingsOpen, geminiClient, mounted,
                 stopPending, transcribePending, editorVars, localStorage, now,
                 beforeReload, userPresent>>

InsertOutstanding == initPending + Len(insertPending) + generatePending

RemoveAt(seq, i) == SubSeq(seq, 1, i - 1) \o SubSeq(seq, i + 1, Len(seq))

\* the App after its mount effect, with or without a stored API key
InitInsert ==
  /\ appState = IDLE
  /\ transcript = ""
  /\ soapMarkdown = ""
  /\ soapHTML = ""
  /\ selectedTemplate = "none"
  /\ alertMessage = NULL
  /\ alertType = "info"
  /\ isSettingsOpen = FALSE
  /\ \E key \in StoredApiKeys :
       /\ localStorage = IF key = "" THEN EmptyStorage ELSE setApiKey(EmptyStorage, key)
       /\ geminiClient = IF key = "" THEN NULL ELSE Some(key)
  /\ mounted = TRUE
  /\ recorder = NewRecorder
  /\ initPending = 0
  /\ stopPending = [hasClient \in BOOLEAN |-> 0]
  /\ transcribePending = 0
  /\ generatePending = 0
  /\ editorShown = TRUE
  /\ editorHTML = ""
  /\ rteBound = "displayed"
  /\ rteHTML = ""
  /\ now = 0
  /\ beforeReload = NULL
  /\ lastOp = <<"mount">>
  /\ selectionStart = 0
  /\ insertPending = <<>>
  /\ userPresent = TRUE

\* onInput of the textarea: onTranscriptChange(e.currentTarget.value), the
\* cursor being wherever the edit left it
InsertTextAreaChange(value, pos) ==
  /\ value # transcript
  /\ transcript' = value
  /\ selectionStart' = pos
  /\ lastOp' = <<"handleTextAreaChange">>
  /\ UNCHANGED <<appState, alertMessage, alertType, recorder, initPending,
                 insertPending, insertNoteVars, insertFrame>>

\* the user places the cursor in the textarea
InsertMoveCursor(pos) ==
  /\ pos # selectionStart
  /\ selectionStart' = pos
  /\ lastOp' = <<"select">>
  /\ UNCHANGED <<appState, transcript, alertMessage, alertType, recorder,
                 initPending, insertPending, insertNoteVars, insertFrame>>

\* the Start / Insert Recording button: shown unless recording, disabled while
\* transcribing; handleStartRecording up to `await audioRecorder.initialize()`
InsertClickStart ==
  /\ appState # RECORDING
  /\ appState # TRANSCRIBING
  /\ InsertOutstanding < MaxPending
  /\ initPending' = initPending + 1
  /\ lastOp' = <<"handleStartRecording">>
  /\ UNCHANGED <<appState, transcript, alertMessage, alertType, recorder,
                 insertVars, insertNoteVars, insertFrame>>

\* initialize() resolved: start(); setAppState(RECORDING)
InsertInitializeResolve ==
  /\ initPending > 0
  /\ initPending' = initPending - 1
  /\ recorder' = RecorderStart(RecorderInitialize(recorder))
  /\ appState' = RECORDING
  /\ lastOp' = <<"InitializeResolve">>
  /\ UNCHANGED <<transcript, alertMessage, alertType, insertVars, insertNoteVars, insertFrame>>

\* initialize() threw: showAlert(errorMsg, 'error')
InsertInitializeReject ==
  /\ initPending > 0
  /\ initPending' = initPending - 1
  /\ ShowAlert("Failed to start recording", "error")
  /\ lastOp' = <<"InitializeReject">>
  /\ UNCHANGED <<appState, transcript, recorder, insertVars, insertNoteVars, insertFrame>>

\* catch of handleStopRecording: showAlert(errorMsg, 'error'); setAppState(IDLE)
InsertStopCatch(message, op) ==
  /\ ShowAlert(message, "error")
  /\ appState' = IDLE
  /\ lastOp' = <<op>>
  /\ UNCHANGED <<transcript, selectionStart>>

\* the Stop Recording button, shown while recording: handleStopRecording up to
\* `await audioRecorder.stop()`; the call keeps the transcript of the render in
\* which the button was clicked
InsertClickStop ==
  /\ appState = RECORDING
  /\ IF RecorderStopThrows(recorder)
     THEN /\ InsertStopCatch("No active recording to stop.", "StopThrows")
          /\ UNCHANGED <<recorder, insertPending>>
     ELSE /\ Len(transcript) <= MaxTranscriptLen
          /\ recorder' = RecorderStop(recorder)
          /\ insertPending' = Append(insertPending,
                                     [await |-> "stop", transcript |-> transcript])
          /\ lastOp' = <<"handleStopRecording">>
          /\ UNCHANGED <<appState, transcript, alertMessage, alertType,
                         selectionStart>>
  /\ UNCHANGED <<initPending, insertNoteVars, insertFrame>>

\* mediaRecorder.onstop of the i-th pending call: setAppState(TRANSCRIBING), then
\* the client check, then `await geminiClient.transcribeAudio(...)`
InsertRecorderOnStop(i) ==
  /\ insertPending[i].await = "stop"
  /\ IF RecorderOnStopRejects(recorder)
     THEN /\ InsertStopCatch("Recording state invalid", "StopRejects")
          /\ insertPending' = RemoveAt(insertPending, i)
     ELSE IF geminiClient = NULL
     THEN /\ InsertStopCatch("Gemini client not initialized", "StopNoClient")
          /\ insertPending' = RemoveAt(insertPending, i)
     ELSE /\ appState' = TRANSCRIBING
          /\ insertPending' = [insertPending EXCEPT ![i].await = "transcribe"]
          /\ lastOp' = <<"onstop">>
          /\ UNCHANGED <<transcript, alertMessage, alertType, selectionStart>>
  /\ UNCHANGED <<recorder, initPending, insertNoteVars, insertFrame>>

\* transcribeAudio of the i-th pending call settles.  On success:
\*   cursorPos = textareaRef.current.selectionStart  (the textarea as it is now)
\*   newTranscript = transcript.slice(0, cursorPos) + text + transcript.slice(cursorPos)
\* with `transcript` the value the call kept; then TRANSCRIPT_READY, the cursor
\* after the inserted text, cleanup()
InsertTranscribeSettles(i, response) ==
  /\ insertPending[i].await = "transcribe"
  /\ insertPending' = RemoveAt(insertPending, i)
  /\ LET result == transcribeAudio(response)
         newTranscript == InsertAt(insertPending[i].transcript, selectionStart,
                                   result.text)
     IN IF result.ok
        THEN /\ transcript' = newTranscript
             /\ appState' = TRANSCRIPT_READY
             /\ selectionStart' = Min(selectionStart + Len(result.text),
                                      Len(newTranscript))
             /\ recorder' = RecorderCleanup(recorder)
             /\ lastOp' = <<"TranscribeResolved", result.text>>
             /\ NoAlert
        ELSE /\ InsertStopCatch(result.text, "TranscribeRejected")
             /\ UNCHANGED recorder
  /\ UNCHANGED <<initPending, insertNoteVars, insertFrame>>

\* AnalysisSection: the Generate / Regenerate button,
\* disabled={!isTranscriptReady || isGenerating}; SOAP_READY and GENERATING_SOAP
\* stand for ANALYSIS_READY and GENERATING of this App
InsertGenerateEnabled ==
  /\ appState \in {TRANSCRIPT_READY, SOAP_READY}
  /\ appState # GENERATING_SOAP

\* handleGenerateNote up to `await geminiClient.generateNote(...)`
InsertClickGenerate ==
  /\ InsertGenerateEnabled
  /\ IF geminiClient = NULL
     THEN /\ ShowAlert("Gemini client not initialized", "error")
          /\ appState' = TRANSCRIPT_READY
          /\ lastOp' = <<"GenerateNoClient">>
          /\ UNCHANGED generatePending
     ELSE /\ InsertOutstanding < MaxPending
          /\ appState' = GENERATING_SOAP
          /\ generatePending' = generatePending + 1
          /\ lastOp' = <<"handleGenerateNote">>
          /\ NoAlert
  /\ UNCHANGED <<transcript, soapMarkdown, soapHTML, recorder, initPending,
                 insertVars, insertFrame>>

\* generateNote settles: the note and ANALYSIS_READY, or the catch with
\* showAlert(errorMsg, 'error'); setAppState(TRANSCRIPT_READY)
InsertGenerateSettles(response) ==
  /\ generatePending > 0
  /\ generatePending' = generatePending - 1
  /\ LET result == generateNote(response)
     IN IF result.ok
        THEN /\ soapMarkdown' = result.text
             /\ soapHTML' = renderMarkdown(result.text)
             /\ appState' = SOAP_READY
             /\ lastOp' = <<"GenerateResolved", result.text>>
             /\ NoAlert
        ELSE /\ ShowAlert(result.text, "error")
             /\ appState' = TRANSCRIPT_READY
             /\ lastOp' = <<"GenerateRejected">>
             /\ UNCHANGED <<soapMarkdown, soapHTML>>
  /\ UNCHANGED <<transcript, recorder, initPending, insertVars, insertFrame>>

NextInsert ==
  \/ \E value \in InsertTypedTranscripts, pos \in 0..2 :
       pos <= Len(value) /\ InsertTextAreaChange(value, pos)
  \/ \E pos \in 0..(2 * MaxTranscriptLen + 2) :
       pos <= Len(transcript) /\ InsertMoveCursor(pos)
  \/ InsertClickStart
  \/ InsertInitializeResolve
  \/ InsertInitializeReject
  \/ InsertClickStop
  \/ \E i \in 1..MaxPending : i <= Len(insertPending) /\ InsertRecorderOnStop(i)
  \/ \E i \in 1..MaxPending, response \in InsertResponses :
       i <= Len(insertPending) /\ InsertTranscribeSettles(i, response)
  \/ InsertClickGenerate
  \/ \E response \in Responses(GenerateResponses) : InsertGenerateSettles(response)

SpecInsert == InitInsert /\ [][NextInsert]_vars

-----------------------------------------------------------------------------
(* The AudioRecorder on its own: every public method called in any order *)

\* most chunks a recording of the model collects
MaxChunks == 2

recorderFrame == <<appVars, editorVars, localStorage, now, beforeReload,
                   transcribePending, generatePending, insertVars, userPresent>>

InitRecorder ==
  /\ appState = IDLE
  /\ transcript = ""
  /\ soapMarkdown = ""
  /\ soapHTML = ""
  /\ selectedTemplate = "none"
  /\ alertMessage = NULL
  /\ alertType = "info"
  /\ isSettingsOpen = FALSE
  /\ geminiClient = NULL
  /\ mounted = FALSE
  /\ recorder = NewRecorder
  /\ initPending = 0
  /\ stopPending = [hasClient \in BOOLEAN |-> 0]
  /\ transcribePending = 0
  /\ generatePending = 0
  /\ editorShown = TRUE
  /\ editorHTML = ""
  /\ rteBound = "displayed"
  /\ rteHTML = ""
  /\ localStorage = EmptyStorage
  /\ now = 0
  /\ beforeReload = NULL
  /\ lastOp = <<"new", NULL>>
  /\ selectionStart = 0
  /\ insertPending = <<>>
  /\ userPresent = TRUE

\* initialize() up to `await navigator.mediaDevices.getUserMedia(...)`
CallInitialize ==
  /\ initPending + stopPending[TRUE] < MaxPending
  /\ initPending' = initPending + 1
  /\ lastOp' = <<"initialize", NULL>>
  /\ UNCHANGED <<recorder, stopPending, recorderFrame>>

\* getUserMedia resolved: the stream and a new MediaRecorder are stored
GetUserMediaResolves ==
  /\ initPending > 0
  /\ initPending' = initPending - 1
  /\ recorder' = RecorderInitialize(recorder)
  /\ lastOp' = <<"initialized", NULL>>
  /\ UNCHANGED <<stopPending, recorderFrame>>

\* getUserMedia rejected: initialize() throws, nothing is stored
GetUserMediaRejects ==
  /\ initPending > 0
  /\ initPending' = initPending - 1
  /\ lastOp' = <<"initialize", Some("Failed to initialize audio recorder")>>
  /\ UNCHANGED <<recorder, stopPending, recorderFrame>>

\* start(onTimeUpdate?): the error is thrown before any field is assigned
CallStart(timed) ==
  /\ recorder' = IF RecorderStartError(recorder) # NULL THEN recorder
                 ELSE IF timed THEN RecorderStartTimed(recorder)
                 ELSE RecorderStart(recorder)
  /\ lastOp' = <<"start", RecorderStartError(recorder)>>
  /\ UNCHANGED <<initPending, stopPending, recorderFrame>>

\* mediaRecorder.ondataavailable with a non-empty event.data
DataAvailable ==
  /\ recorder.mediaRecorder = "recording"
  /\ recorder.audioChunks < MaxChunks
  /\ recorder' = [recorder EXCEPT !.audioChunks = @ + 1]
  /\ lastOp' = <<"ondataavailable", NULL>>
  /\ UNCHANGED <<initPending, stopPending, recorderFrame>>

\* stop(): rejects before touching the timer unless a recording is active
CallStop ==
  /\ IF RecorderStopThrows(recorder)
     THEN /\ lastOp' = <<"stop", Some("No active recording to stop.")>>
          /\ UNCHANGED <<recorder, stopPending>>
     ELSE /\ initPending + stopPending[TRUE] < MaxPending
          /\ recorder' = RecorderStop(recorder)
          /\ stopPending' = [stopPending EXCEPT ![TRUE] = @ + 1]
          /\ lastOp' = <<"stop", NULL>>
  /\ UNCHANGED <<initPending, recorderFrame>>

\* mediaRecorder.onstop of a pending stop()
CallOnStop ==
  /\ stopPending[TRUE] > 0
  /\ stopPending' = [stopPending EXCEPT ![TRUE] = @ - 1]
  /\ lastOp' = <<"onstop", IF RecorderOnStopRejects(recorder)
                           THEN Some("Recording state invalid") ELSE NULL>>
  /\ UNCHANGED <<recorder, initPending, recorderFrame>>

CallCleanup ==
  /\ RecorderCleanup(recorder) # recorder
  /\ recorder' = RecorderCleanup(recorder)
  /\ lastOp' = <<"cleanup", NULL>>
  /\ UNCHANGED <<initPending, stopPending, recorderFrame>>

NextRecorder ==
  \/ CallInitialize
  \/ GetUserMediaResolves
  \/ GetUserMediaRejects
  \/ \E timed \in BOOLEAN : CallStart(timed)
  \/ DataAvailable
  \/ CallStop
  \/ CallOnStop
  \/ CallCleanup

SpecRecorder == InitRecorder /\ [][NextRecorder]_vars

-----------------------------------------------------------------------------
(* The page when every AI response comes back blank *)

BlankResponses == {Text(""), Text(" ")}

NextBlank ==
  \/ Mount
  \/ Reload
  \/ ClickStartRecording
  \/ InitializeResolve
  \/ ClickStopRecording
  \/ \E hasClient \in BOOLEAN : RecorderOnStop(hasClient)
  \/ \E response \in BlankResponses : TranscribeSettles(response)
  \/ \E value \in TypedTranscripts : EditTranscript(value)
  \/ handleReRecord
  \/ ClickGenerateSOAP
  \/ \E response \in BlankResponses : GenerateSettles(response)
  \/ \E newApiKey \in TypedApiKeys, systemPrompt \in TypedPrompts :
       handleSettingsSave(newApiKey, systemPrompt)

SpecBlank == Init /\ [][NextBlank]_vars

-----------------------------------------------------------------------------
(* The page with a user who may walk away: from then on only the pending calls
   of the page complete.  Every getUserMedia call, recorder stop and network
   request settles eventually. *)

\* the user stops interacting with the page
UserLeaves ==
  /\ mounted
  /\ userPresent
  /\ userPresent' = FALSE
  /\ lastOp' = "UserLeaves"
  /\ UNCHANGED <<appVars, asyncVars, editorVars, localStorage, now, beforeReload,
                 insertVars>>

InitializeSettles == InitializeResolve \/ InitializeReject
StopSettles == \E hasClient \in BOOLEAN : RecorderOnStop(hasClient)
TranscriptionSettles ==
  \E response \in Responses(TranscribeResponses) : TranscribeSettles(response)
GenerationSettles ==
  \E response \in Responses(GenerateResponses) : GenerateSettles(response)

NextSettle ==
  \/ Mount
  \/ userPresent /\ ClickStartRecording
  \/ userPresent /\ ClickStopRecording
  \/ userPresent /\ handleReRecord
  \/ userPresent /\ ClickGenerateSOAP
  \/ \E newApiKey \in TypedApiKeys, systemPrompt \in TypedPrompts :
       userPresent /\ handleSettingsSave(newApiKey, systemPrompt)
  \/ UserLeaves
  \/ InitializeSettles
  \/ StopSettles
  \/ TranscriptionSettles
  \/ GenerationSettles

SpecSettle ==
  /\ Init
  /\ [][NextSettle]_vars
  /\ WF_vars(Mount)
  /\ WF_vars(InitializeSettles)
  /\ WF_vars(StopSettles)
  /\ WF_vars(TranscriptionSettles)
  /\ WF_vars(GenerationSettles)

-----------------------------------------------------------------------------
(* Properties of the stored settings (SpecSettings) *)

\* C11: after clearAllData, whatever was stored before, getApiKey is '',
\* hasApiKey is false, getSystemPrompt is the default prompt,
\* getSelectedTemplate is 'none', getCurrentSession is null, getSessionHistory
\* is empty, and no key of localStorage holds a value
ClearAllDataRestoresDefaults ==
  lastOp[1] = "clearAllData" =>
    /\ getApiKey(localStorage) = ""
    /\ ~hasApiKey(localStorage)
    /\ getSystemPrompt(localStorage) = DEFAULT_SYSTEM_PROMPT
    /\ getSelectedTemplate(localStorage) = "none"
    /\ getCurrentSession(localStorage) = NULL
    /\ getSessionHistory(localStorage) = <<>>
    /\ \A key \in DOMAIN localStorage : getItem(localStorage, key) = NULL

\* clearAllData ran on a storage in which every key held a value
ClearAllDataWitness ==
  /\ lastOp[1] = "clearAllData"
  /\ \A key \in STORAGE_KEYS : getItem(lastOp[2], key) # NULL
  /\ getApiKey(lastOp[2]) = "k1"
  /\ getSystemPrompt(lastOp[2]) = "custom prompt"
  /\ getSelectedTemplate(lastOp[2]) = "SOAP"
  /\ Len(getSessionHistory(lastOp[2])) = 2

-----------------------------------------------------------------------------
(* Properties of the note request (SpecRequest) *)

\* the parts hold the three template parts, in order, from position i
TemplatePartsAt(parts, i, content) ==
  /\ i + 2 <= Len(parts)
  /\ parts[i] = TemplateGuide
  /\ parts[i + 1] = content
  /\ parts[i + 2] = TemplateSeparator

\* C13: the request of generateNote holds the template parts if and only if
\* templateContent is non-blank after trimming; when present they come before
\* the abbreviation preamble and the transcript; with the 'none' template the
\* request holds only the preamble and the transcript
TemplateOptionalInRequest ==
  lastOp[1] \in {"generateNote", "handleGenerateSOAP"} =>
    LET tr == lastOp[2]
        parts == lastOp[5].parts
        content == IF lastOp[1] = "generateNote" THEN lastOp[4]
                   ELSE Some(TemplateContentOf(lastOp[4]))
        present == content # NULL /\ Len(Trim(content[1])) > 0
    IN /\ Len(parts) >= 2
       /\ parts[Len(parts) - 1] = AbbreviationPreamble
       /\ parts[Len(parts)] = tr
       /\ present <=> (\E i \in 1..Len(parts) : parts[i] = TemplateGuide)
       /\ present => Len(parts) = 5 /\ TemplatePartsAt(parts, 1, content[1])
       /\ ~present => Len(parts) = 2
       /\ (lastOp[1] = "handleGenerateSOAP" /\ lastOp[4] = "none") =>
            parts = <<AbbreviationPreamble, tr>>

\* the App asked for a note with the SOAP template selected
TemplateInRequestWitness ==
  /\ lastOp[1] = "handleGenerateSOAP"
  /\ lastOp[4] = "SOAP"
  /\ lastOp[2] = "T1"
  /\ TemplatePartsAt(lastOp[5].parts, 1, TEMPLATES["SOAP"].content)
  /\ Len(lastOp[5].parts) = 5

-----------------------------------------------------------------------------
(* Insert at the cursor (SpecInsert) *)

\* C14: when a transcription completes in the insert-at-cursor App, the new
\* transcript is the transcript as it stood just before the completion, edits
\* typed during the transcription included, with the transcribed text inserted
\* at the cursor position: no character of it is dropped or replaced
InsertKeepsTranscript ==
  [][lastOp'[1] = "TranscribeResolved"
       => transcript' = InsertAt(transcript, selectionStart, lastOp'[2])]_vars

-----------------------------------------------------------------------------
(* Re-record and the requests still in flight (Spec) *)

\* a response to a transcription or generation request arrives in this step
ResponseArrives ==
  /\ mounted'
  /\ generatePending' < generatePending \/ transcribePending' < transcribePending

\* C15: after Re-record the transcript, the note and the persisted current
\* session stay empty and appState stays out of the ready states; a response to
\* a request issued before the Re-record does not repopulate them
ReRecordStaysCleared ==
  [][lastOp = "handleReRecord" /\ ResponseArrives
       => /\ transcript' = ""
          /\ soapMarkdown' = ""
          /\ getCurrentSession(localStorage') = NULL
          /\ appState' \notin {TRANSCRIPT_READY, SOAP_READY}]_vars

-----------------------------------------------------------------------------
(* appState and the shared AudioRecorder (Spec) *)

\* C16: appState is RECORDING if and only if the MediaRecorder of the shared
\* AudioRecorder is in the 'recording' state
RecordingIffMediaRecorderRecording ==
  (appState = RECORDING) <=> (recorder.mediaRecorder = "recording")

-----------------------------------------------------------------------------
(* The microphone stream (Spec) *)

\* C17: the stream acquired by initialize() is released once its
\* stop-and-transcribe pipeline has finished: with no call outstanding, no stream
\* is open while the app rests in IDLE, TRANSCRIPT_READY or SOAP_READY
StreamReleasedAtRest ==
  (appState \in {IDLE, TRANSCRIPT_READY, SOAP_READY} /\ Outstanding = 0)
    => recorder.stream = "null"

-----------------------------------------------------------------------------
(* The call protocol of the AudioRecorder (SpecRecorder) *)

\* C18: start() throws 'Recorder not initialized' while there is no
\* MediaRecorder (before a successful initialize(), after cleanup()) and
\* 'Recording already in progress' while recording; stop() rejects with 'No
\* active recording to stop' unless a recording is active; in each of these
\* cases the chunks, start time, timer and MediaRecorder state are unchanged
RecorderProtocolEnforced ==
  [][/\ (lastOp'[1] = "start" /\ recorder.mediaRecorder = "null")
          => /\ lastOp'[2] = Some("Recorder not initialized. Call initialize() first.")
             /\ recorder' = recorder
     /\ (lastOp'[1] = "start" /\ recorder.mediaRecorder = "recording")
          => /\ lastOp'[2] = Some("Recording already in progress.")
             /\ recorder' = recorder
     /\ (lastOp'[1] = "stop" /\ recorder.mediaRecorder # "recording")
          => /\ lastOp'[2] = Some("No active recording to stop.")
             /\ recorder' = recorder]_vars

\* start() was refused during a timed recording that holds chunks
RecorderProtocolWitness ==
  /\ lastOp = <<"start", Some("Recording already in progress.")>>
  /\ recorder.audioChunks > 0
  /\ recorder.timerInterval = "running"

-----------------------------------------------------------------------------
(* Blank responses (Spec) *)

-----------------------------------------------------------------------------
(* No loading state lasts (SpecSettle) *)

Loading == appState \in {TRANSCRIBING, GENERATING_SOAP}
AtRest == appState \in {IDLE, TRANSCRIPT_READY, SOAP_READY}

\* stops of the recorder and network requests that have not settled yet
RequestsOutstanding ==
  stopPending[TRUE] + stopPending[FALSE] + transcribePending + generatePending

\* C20: no loading state lasts for ever: from a state with appState
\* TRANSCRIBING or GENERATING_SOAP in which the user acts no more, the recorder
\* stops and requests outstanding all complete and appState is then IDLE,
\* TRANSCRIPT_READY or SOAP_READY
LoadingEndsAtRest ==
  (Loading /\ ~userPresent) ~> (RequestsOutstanding = 0 /\ AtRest)

\* the user had left and the last request came back
LoadingEndsWitness ==
  /\ ~userPresent
  /\ lastOp \in {"GenerateResolved", "GenerateRejected", "TranscribeRejected"}
  /\ RequestsOutstanding = 0
  /\ AtRest

-----------------------------------------------------------------------------
(* The Generate button of the insert-at-cursor App (SpecInsert) *)

\* C21: whenever the transcript is not empty, no recording is active and no
\* call is in flight, the Generate button is enabled
GenerateEnabledForTranscript ==
  (/\ transcript # ""
   /\ appState # RECORDING
   /\ recorder.mediaRecorder # "recording"
   /\ InsertOutstanding = 0)
    => InsertGenerateEnabled

-----------------------------------------------------------------------------
(* The stored system prompt (SpecSettings) *)

\* C22: getSystemPrompt() after setSystemPrompt(p) returns p, for every string
\* p; after resetSystemPrompt() and with nothing stored it returns the default
\* prompt
SystemPromptRoundTrips ==
  /\ lastOp[1] = "setSystemPrompt" => getSystemPrompt(localStorage) = lastOp[2]
  /\ lastOp[1] = "resetSystemPrompt"
       => getSystemPrompt(localStorage) = DEFAULT_SYSTEM_PROMPT
  /\ getItem(localStorage, "system_prompt") = NULL
       => getSystemPrompt(localStorage) = DEFAULT_SYSTEM_PROMPT

=============================================================================
